---- MODULE Spec2Model ----
(***************************************************************************)
(* Model of the steganography tool: the format sniffer, the codec adapter  *)
(* boundary, the per-channel pixel transform, Merge, Unmerge and the       *)
(* command-line front end, over a small file system.                       *)
(*                                                                         *)
(* Strings whose characters matter (file names, commands) are sequences    *)
(* of one-character strings.  A 64-bit word is a sequence of 8 bytes, most *)
(* significant first.  An image is [h, w, px] with px a function from      *)
(* <<row, col>> (0-based) to a pixel <<r, g, b>>.                          *)
(***************************************************************************)
EXTENDS Integers, Sequences, FiniteSets, TLC

VARIABLES fs,              \* the file system: path -> file
          mergeOutfile,    \* the OUT_IMG name used for merge commands
          unmergeOutfile,  \* the OUT_IMG name used for unmerge commands
          last,            \* the last run of the program: command and arguments
          fs0,             \* the file system as it was before the last run
          rc,              \* main's local rc after the last run
          exitCode,        \* the exit status of the last run
          stderr,          \* the lines the last run printed on stderr
          stdout,          \* whether the last run printed the usage text
          trace,           \* the file-level calls the last run made, in order
          origin           \* the cover and secret images of the merge that wrote mergeOutfile

vars == <<fs, mergeOutfile, unmergeOutfile, last, fs0, rc, exitCode, stderr,
          stdout, trace, origin>>

----------------------------------------------------------------------------
(* Bounds of the model. *)

\* image heights and widths range over 1..MaxDim
MaxDim == 2
\* initial images are drawn from the patterns 0..MaxSeed
MaxSeed == 1

----------------------------------------------------------------------------
(* Bit operations on naturals. *)

RECURSIVE BitAnd(_, _)
BitAnd(a, b) ==
    IF a = 0 \/ b = 0 THEN 0
    ELSE (a % 2) * (b % 2) + 2 * BitAnd(a \div 2, b \div 2)

RECURSIVE BitOr(_, _)
BitOr(a, b) ==
    IF a = 0 THEN b
    ELSE IF b = 0 THEN a
    ELSE (IF (a % 2) + (b % 2) > 0 THEN 1 ELSE 0) + 2 * BitOr(a \div 2, b \div 2)

RECURSIVE Pow2(_)
Pow2(n) == IF n = 0 THEN 1 ELSE 2 * Pow2(n - 1)

\* x << n and x >> n on int operands (no overflow for the operands used here)
Shl(x, n) == x * Pow2(n)
Shr(x, n) == x \div Pow2(n)

\* conversion of an int to uint8_t
ToUint8(x) == x % 256

----------------------------------------------------------------------------
(* Enumerations. *)

kJpeg == "kJpeg"
kPng == "kPng"
kUnknown == "kUnknown"

kSuccess == "kSuccess"
kInvalidFileFormat == "kInvalidFileFormat"
kFileNotFound == "kFileNotFound"
kInvalidDimensions == "kInvalidDimensions"
RetCode == {kSuccess, kInvalidFileFormat, kFileNotFound, kInvalidDimensions}

\* a call that ended in an uncaught exception has no return code
Threw == "threw"
\* main ended before declaring rc
NoRc == "none"

----------------------------------------------------------------------------
(* Files.  bytes holds the leading bytes of the file, at most kHeaderSize   *)
(* of them (all of them when the file is shorter); enc is the format the    *)
(* codec finds in the file; img is what the codec decodes (for a file       *)
(* written as JPEG: the image handed to the encoder).                       *)

NoImg == [h |-> 0, w |-> 0, px |-> [p \in {} |-> <<0, 0, 0>>]]
NoFile == [exists |-> FALSE, readable |-> FALSE, bytes |-> <<>>,
           enc |-> "none", img |-> NoImg]

Event(fn, path, arg) == [fn |-> fn, path |-> path, arg |-> arg]

----------------------------------------------------------------------------
(* GetImageType *)

kHeaderSize == 8
kByteShift == 8
kPngSignature == <<137, 80, 78, 71, 13, 10, 26, 10>>
kJpegSignature == <<255, 216, 0, 0, 0, 0, 0, 0>>

ZeroWord == <<0, 0, 0, 0, 0, 0, 0, 0>>

\* ifs.read into the zero-filled buffer: the bytes the file has are stored,
\* the rest of the buffer keeps its zeros
\* ReadHeader storing nothing when the file has fewer bytes than asked for
ReadHeader_AllOrNothing(file) ==
    [i \in 1..kHeaderSize |->
        IF Len(file.bytes) >= kHeaderSize THEN file.bytes[i] ELSE 0]

ReadHeader(file) ==
    [i \in 1..kHeaderSize |->
        IF i <= Len(file.bytes) THEN file.bytes[i] ELSE 0]

\* word << bits on a uint64_t, for a whole number of bytes
WordShl(word, bits) ==
    [i \in 1..8 |-> IF i + (bits \div 8) <= 8 THEN word[i + (bits \div 8)] ELSE 0]

\* word | c for a byte c
WordOrByte(word, c) == [word EXCEPT ![8] = BitOr(@, c)]

WordAnd(x, y) == [i \in 1..8 |-> BitAnd(x[i], y[i])]

RECURSIVE BuildWord(_, _, _)
BuildWord(buffer, i, word) ==
    IF i > Len(buffer) THEN word
    ELSE BuildWord(buffer, i + 1, WordOrByte(WordShl(word, kByteShift), buffer[i]))

GetImageType(fsys, filename) ==
    IF ~(fsys[filename].exists /\ fsys[filename].readable) THEN kUnknown
    ELSE LET word == BuildWord(ReadHeader(fsys[filename]), 1, ZeroWord)
         IN  IF word = kPngSignature THEN kPng
             ELSE IF WordAnd(word, kJpegSignature) = kJpegSignature THEN kJpeg
             ELSE kUnknown

----------------------------------------------------------------------------
(* ReadImage, WriteImage: the codec boundary.  Decoding fails (throws) when *)
(* the file does not hold an image of the requested format.  PNG is         *)
(* lossless: what is written is what is read back.                          *)

ReadImage(fsys, filename, type) ==
    LET want == IF type = kJpeg THEN "jpeg" ELSE "png"
    IN  IF fsys[filename].enc = want
        THEN [ok |-> TRUE, image |-> fsys[filename].img]
        ELSE [ok |-> FALSE, image |-> NoImg]

JfifHeader == <<255, 216, 255, 224, 0, 16, 74, 70>>

WriteImage(fsys, image, filename, type) ==
    IF type = kJpeg
    THEN [fsys EXCEPT ![filename] =
             [exists |-> TRUE, readable |-> TRUE, bytes |-> JfifHeader,
              enc |-> "jpeg", img |-> image]]
    ELSE [fsys EXCEPT ![filename] =
             [exists |-> TRUE, readable |-> TRUE, bytes |-> kPngSignature,
              enc |-> "png", img |-> image]]

----------------------------------------------------------------------------
(* MergePixels, UnmergePixels *)

kHighNibble == 240
kLowNibble == 15
kBlackPixel == <<0, 0, 0>>

\* MergePixels without the mask on the cover channel
MergePixels_NoCoverMask(cover_pix, secret_pix) ==
    [i \in 1..3 |->
        ToUint8(BitOr(cover_pix[i], Shr(BitAnd(secret_pix[i], kHighNibble), 4)))]

\* MergePixels leaving a cover channel as it is when the secret channel has
\* nothing to hide
MergePixels_SkipBlack(cover_pix, secret_pix) ==
    [i \in 1..3 |->
        IF BitAnd(secret_pix[i], kHighNibble) = 0 THEN cover_pix[i]
        ELSE ToUint8(BitOr(BitAnd(cover_pix[i], kHighNibble),
                           Shr(BitAnd(secret_pix[i], kHighNibble), 4)))]

MergePixels(cover_pix, secret_pix) ==
    [i \in 1..3 |->
        ToUint8(BitOr(BitAnd(cover_pix[i], kHighNibble),
                      Shr(BitAnd(secret_pix[i], kHighNibble), 4)))]

\* UnmergePixels without the shift
UnmergePixels_NoShift(pixel) ==
    [i \in 1..3 |-> ToUint8(BitAnd(pixel[i], kLowNibble))]

UnmergePixels(pixel) ==
    [i \in 1..3 |-> ToUint8(Shl(BitAnd(pixel[i], kLowNibble), 4))]

----------------------------------------------------------------------------
(* HasJpegExtension *)

kExtensions == << <<".", "j", "p", "g">>, <<".", "j", "p", "e", "g">>,
                 <<".", "J", "P", "G">>, <<".", "J", "P", "E", "G">> >>

ends_with(str, s) ==
    /\ Len(s) <= Len(str)
    /\ SubSeq(str, Len(str) - Len(s) + 1, Len(str)) = s

\* HasJpegExtension looking for the extension anywhere in the name
HasJpegExtension_Find(filename) ==
    \E k \in 1..Len(kExtensions) : \E n \in 0..Len(filename) :
        ends_with(SubSeq(filename, 1, n), kExtensions[k])

HasJpegExtension(filename) ==
    \E k \in 1..Len(kExtensions) : ends_with(filename, kExtensions[k])

----------------------------------------------------------------------------
(* Merge *)

\* TooLarge rejecting equal heights and widths as well
TooLarge_Strict(secret_img, cover_img) ==
    \/ secret_img.h >= cover_img.h
    \/ secret_img.w >= cover_img.w

\* the secret does not fit within the cover
TooLarge(secret_img, cover_img) ==
    \/ secret_img.h > cover_img.h
    \/ secret_img.w > cover_img.w

\* the two nested loops over the output view, as one pass in row-major
\* order starting at pixel number k
\* MergeLoop leaving the pixels outside the secret as they are in the cover
RECURSIVE MergeLoop_NoPad(_, _, _)
MergeLoop_NoPad(output_img, secret_img, k) ==
    IF k >= output_img.h * output_img.w THEN output_img
    ELSE LET row == k \div output_img.w
             col == k % output_img.w
             merged ==
                 IF (row >= secret_img.h) \/ (col >= secret_img.w)
                 THEN output_img.px[<<row, col>>]
                 ELSE MergePixels(output_img.px[<<row, col>>],
                                  secret_img.px[<<row, col>>])
         IN  MergeLoop_NoPad([output_img EXCEPT !.px[<<row, col>>] = merged],
                             secret_img, k + 1)

RECURSIVE MergeLoop(_, _, _)
MergeLoop(output_img, secret_img, k) ==
    IF k >= output_img.h * output_img.w THEN output_img
    ELSE LET row == k \div output_img.w
             col == k % output_img.w
             merged ==
                 IF (row >= secret_img.h) \/ (col >= secret_img.w)
                 THEN MergePixels(output_img.px[<<row, col>>], kBlackPixel)
                 ELSE MergePixels(output_img.px[<<row, col>>],
                                  secret_img.px[<<row, col>>])
         IN  MergeLoop([output_img EXCEPT !.px[<<row, col>>] = merged],
                       secret_img, k + 1)

Result(code, fsys, tr) == [rc |-> code, fs |-> fsys, trace |-> tr]

\* MergeImages writing the copy of the cover before it checks the dimensions
MergeImages_WriteFirst(fsys, cover_img, secret_img, outfile, tr) ==
    LET written == WriteImage(fsys, cover_img, outfile, kPng)
        tw == Append(tr, Event("WriteImage", outfile, kPng))
    IN  IF TooLarge(secret_img, cover_img) THEN Result(kInvalidDimensions, written, tw)
        ELSE Result(kSuccess,
                    WriteImage(fsys, MergeLoop(cover_img, secret_img, 0), outfile, kPng),
                    tw)

\* MergeImages choosing the output format from the name, as Unmerge does
MergeImages_ByExtension(fsys, cover_img, secret_img, outfile, tr) ==
    IF TooLarge(secret_img, cover_img) THEN Result(kInvalidDimensions, fsys, tr)
    ELSE
    LET output_img == MergeLoop(cover_img, secret_img, 0)
        out_t == IF HasJpegExtension(outfile) THEN kJpeg ELSE kPng
    IN  Result(kSuccess, WriteImage(fsys, output_img, outfile, out_t),
               Append(tr, Event("WriteImage", outfile, out_t)))

\* the part of Merge that follows the decoding of the two images: the copy
\* of the cover, the check of the dimensions, the loops and the write
MergeImages(fsys, cover_img, secret_img, outfile, tr) ==
    IF TooLarge(secret_img, cover_img) THEN Result(kInvalidDimensions, fsys, tr)
    ELSE
    LET output_img == MergeLoop(cover_img, secret_img, 0)
    IN  Result(kSuccess, WriteImage(fsys, output_img, outfile, kPng),
               Append(tr, Event("WriteImage", outfile, kPng)))

Merge(fsys, cover, secret, outfile) ==
    LET ex_c == Event("exists", cover, "")
        ex_s == Event("exists", secret, "")
    IN
    IF ~fsys[cover].exists THEN Result(kFileNotFound, fsys, <<ex_c>>)
    ELSE IF ~fsys[secret].exists THEN Result(kFileNotFound, fsys, <<ex_c, ex_s>>)
    ELSE
    LET cover_img_t == GetImageType(fsys, cover)
        secret_img_t == GetImageType(fsys, secret)
        t1 == <<ex_c, ex_s, Event("GetImageType", cover, cover_img_t),
                Event("GetImageType", secret, secret_img_t)>>
    IN
    IF (cover_img_t = kUnknown) \/ (secret_img_t = kUnknown)
    THEN Result(kInvalidFileFormat, fsys, t1)
    ELSE
    LET rd_c == ReadImage(fsys, cover, cover_img_t)
        rd_s == ReadImage(fsys, secret, secret_img_t)
        t2 == Append(t1, Event("ReadImage", cover, cover_img_t))
        t3 == Append(t2, Event("ReadImage", secret, secret_img_t))
    IN
    IF ~rd_c.ok THEN Result(Threw, fsys, t2)
    ELSE IF ~rd_s.ok THEN Result(Threw, fsys, t3)
    ELSE
    MergeImages(fsys, rd_c.image, rd_s.image, outfile, t3)

----------------------------------------------------------------------------
(* Unmerge *)

RECURSIVE UnmergeLoop(_, _, _)
UnmergeLoop(output_img, secret_img, k) ==
    IF k >= output_img.h * output_img.w THEN output_img
    ELSE LET row == k \div output_img.w
             col == k % output_img.w
         IN  UnmergeLoop([output_img EXCEPT !.px[<<row, col>>] =
                              UnmergePixels(secret_img.px[<<row, col>>])],
                         secret_img, k + 1)

Unmerge(fsys, secret, outfile) ==
    LET ex_s == Event("exists", secret, "")
    IN
    IF ~fsys[secret].exists THEN Result(kFileNotFound, fsys, <<ex_s>>)
    ELSE
    LET secret_img_t == GetImageType(fsys, secret)
        t1 == <<ex_s, Event("GetImageType", secret, secret_img_t)>>
    IN
    IF secret_img_t = kUnknown THEN Result(kInvalidFileFormat, fsys, t1)
    ELSE
    LET rd_s == ReadImage(fsys, secret, secret_img_t)
        t2 == Append(t1, Event("ReadImage", secret, secret_img_t))
    IN
    IF ~rd_s.ok THEN Result(Threw, fsys, t2)
    ELSE
    LET secret_img == rd_s.image
        output_img == UnmergeLoop(secret_img, secret_img, 0)
        out_t == IF HasJpegExtension(outfile) THEN kJpeg ELSE kPng
    IN  Result(kSuccess, WriteImage(fsys, output_img, outfile, out_t),
               Append(t2, Event("WriteImage", outfile, out_t)))

----------------------------------------------------------------------------
(* The command-line front end.  argv[1] is the program name, so the C       *)
(* argv[k] is argv[k + 1] here and argc is Len(argv).                       *)

kMergeCmdArgCount == 5
kUnmergeCmdArgCount == 4
kMergeCmd == <<"m", "e", "r", "g", "e">>
kUnmergeCmd == <<"u", "n", "m", "e", "r", "g", "e">>
kHelpCmd == <<"h", "e", "l", "p">>
EXIT_FAILURE == 1

Exit(fsys, code, status, err, usage, tr) ==
    [fs |-> fsys, rc |-> code, exitCode |-> status, stderr |-> err,
     stdout |-> usage, trace |-> tr]

\* the two lines PrintErrAndExit writes; the first is "error: " followed by err
ErrLines(err) ==
    << <<"error: ", err>>, "try 'steganography help' for more information" >>

\* PrintErrAndExit leaving with status 0
PrintErrAndExit_Success(fsys, code, err, usage, tr) ==
    Exit(fsys, code, 0, ErrLines(err), usage, tr)

PrintErrAndExit(fsys, code, err, usage, tr) ==
    Exit(fsys, code, EXIT_FAILURE, ErrLines(err), usage, tr)

\* the switch on rc at the end of main; an uncaught exception in the
\* command ends the process with SIGABRT (status 134) before the switch
ReportErrors(fsys, code, usage, tr) ==
    IF code = Threw THEN Exit(fsys, code, 134, <<>>, usage, tr)
    ELSE IF code = kSuccess THEN Exit(fsys, code, 0, <<>>, usage, tr)
    ELSE IF code = kInvalidFileFormat
    THEN PrintErrAndExit(fsys, code,
                         "invalid format, only JPEG and PNG are accepted", usage, tr)
    ELSE IF code = kFileNotFound
    THEN PrintErrAndExit(fsys, code, "one or more input files do not exist", usage, tr)
    ELSE PrintErrAndExit(fsys, code,
                         "secret image does not fit inside cover image", usage, tr)

main(fsys, argv) ==
    LET argc == Len(argv)
    IN
    IF argc < 2 THEN PrintErrAndExit(fsys, NoRc, "missing command", FALSE, <<>>)
    ELSE
    LET cmd == argv[2]
    IN
    IF (kMergeCmd # cmd) /\ (kUnmergeCmd # cmd) /\ (kHelpCmd # cmd)
    THEN PrintErrAndExit(fsys, NoRc, "unknown CMD value", FALSE, <<>>)
    ELSE IF (kMergeCmd = cmd) /\ (kMergeCmdArgCount # argc)
    THEN PrintErrAndExit(fsys, NoRc, "invalid arg count for merge command", FALSE, <<>>)
    ELSE IF (kUnmergeCmd = cmd) /\ (kUnmergeCmdArgCount # argc)
    THEN PrintErrAndExit(fsys, NoRc, "invalid arg count for unmerge command", FALSE, <<>>)
    ELSE IF kMergeCmd = cmd
    THEN LET r == Merge(fsys, argv[3], argv[4], argv[5])
         IN  ReportErrors(r.fs, r.rc, FALSE, r.trace)
    ELSE IF kUnmergeCmd = cmd
    THEN LET r == Unmerge(fsys, argv[3], argv[4])
         IN  ReportErrors(r.fs, r.rc, FALSE, r.trace)
    ELSE ReportErrors(fsys, kSuccess, TRUE, <<>>)

----------------------------------------------------------------------------
(* File names. *)

kProg == <<"s", "t", "e", "g">>

\* the input images; the names say nothing about the contents
PathA == <<"a", ".", "j", "p", "g">>
PathB == <<"b", ".", "p", "n", "g">>

MergeOutPaths ==
    { <<"m", ".", "p", "n", "g">>, <<"m", ".", "j", "p", "g">>,
      <<"m", ".", "j", "p", "e", "g">>, <<"m", ".", "J", "P", "G">>,
      <<"m", ".", "J", "P", "E", "G">> }

UnmergeOutPaths ==
    { <<"u", ".", "j", "p", "g">>, <<"u", ".", "j", "p", "e", "g">>,
      <<"u", ".", "J", "P", "G">>, <<"u", ".", "J", "P", "E", "G">>,
      <<"u", ".", "J", "p", "g">>, <<"u", ".", "j", "p", "G">>,
      <<"u", ".", "p", "n", "g">>, <<"u">>, <<"u", "j", "p", "g">>,
      <<"u", ".", "j", "p", "g", ".", "p", "n", "g">>,
      <<"u", ".", "j", "p", "g", "x">> }

----------------------------------------------------------------------------
(* Initial files. *)

\* channel values the initial images are made of
ChanSamples == <<0, 255, 15, 240, 165, 90, 60, 195,
                 1, 16, 128, 127, 51, 204, 254, 239>>

Coords(h, w) == (0..(h - 1)) \X (0..(w - 1))

MakeImage(h, w, seed) ==
    [h |-> h, w |-> w,
     px |-> [p \in Coords(h, w) |->
                [i \in 1..3 |->
                    ChanSamples[((seed * 7 + p[1] * 5 + p[2] * 3 + i * 11)
                                 % Len(ChanSamples)) + 1]]]]

ImageFile(enc, image) ==
    [exists |-> TRUE, readable |-> TRUE,
     bytes |-> IF enc = "png" THEN kPngSignature ELSE JfifHeader,
     enc |-> enc, img |-> image]

ImageFiles ==
    { ImageFile(enc, MakeImage(h, w, seed)) :
        enc \in {"png", "jpeg"}, h \in 1..MaxDim, w \in 1..MaxDim,
        seed \in 0..MaxSeed }

\* a file that is not an image
Junk(bytes, readable) ==
    [exists |-> TRUE, readable |-> readable, bytes |-> bytes,
     enc |-> "none", img |-> NoImg]

JunkFiles ==
    { Junk(ZeroWord, TRUE), Junk(<<255, 216>>, TRUE),
      Junk(kPngSignature, FALSE) }

HeaderBytes == {0, 137, 80, 255, 216, 217, 208, 254}
HeaderTails == { <<78, 71, 13, 10, 26, 10>>, <<78, 71, 13, 10, 26, 11>>,
                 <<255, 224, 0, 16, 74, 70>>, <<0, 0, 0, 0, 0, 0>> }

\* whole headers, and every truncation of a few of them
HeaderFiles ==
    { Junk(<<b1, b2>> \o tail, TRUE) :
        b1 \in HeaderBytes, b2 \in HeaderBytes, tail \in HeaderTails }
    \cup
    { Junk(SubSeq(word, 1, len), TRUE) :
        word \in {kPngSignature, JfifHeader, ZeroWord,
                  <<255, 217, 255, 224, 0, 16, 74, 70>>},
        len \in 0..(kHeaderSize - 1) }

NoOrigin == [valid |-> FALSE, cover |-> NoImg, secret |-> NoImg]

DefaultMergeOut == <<"m", ".", "p", "n", "g">>
DefaultUnmergeOut == <<"u", ".", "j", "p", "g">>

\* a file system holding fa at PathA and fb at PathB and nothing at the
\* output names mo and uo
MakeFs(fa, fb, mo, uo) ==
    [p \in {PathA, PathB, mo, uo} |->
        IF p = PathA THEN fa ELSE IF p = PathB THEN fb ELSE NoFile]

\* two images of every size, of the two formats
InitImages ==
    /\ \E ha \in 1..MaxDim, wa \in 1..MaxDim, hb \in 1..MaxDim, wb \in 1..MaxDim,
          sa \in 0..MaxSeed, sb \in 0..MaxSeed :
          fs = MakeFs(ImageFile("jpeg", MakeImage(ha, wa, sa)),
                      ImageFile("png", MakeImage(hb, wb, sb + 3)),
                      DefaultMergeOut, DefaultUnmergeOut)
    /\ mergeOutfile = DefaultMergeOut
    /\ unmergeOutfile = DefaultUnmergeOut

\* missing files and files that are not images
InitJunk ==
    /\ \E fa \in JunkFiles \cup {NoFile, ImageFile("png", MakeImage(1, 1, 0))},
          fb \in JunkFiles \cup {NoFile, ImageFile("jpeg", MakeImage(1, 1, 1))} :
          fs = MakeFs(fa, fb, DefaultMergeOut, DefaultUnmergeOut)
    /\ mergeOutfile = DefaultMergeOut
    /\ unmergeOutfile = DefaultUnmergeOut

\* files with every kind of header
InitHeaders ==
    /\ \E fa \in HeaderFiles :
          fs = MakeFs(fa, NoFile, DefaultMergeOut, DefaultUnmergeOut)
    /\ mergeOutfile = DefaultMergeOut
    /\ unmergeOutfile = DefaultUnmergeOut

\* every output name, with every combination of input formats
InitPaths ==
    /\ \/ mergeOutfile \in MergeOutPaths /\ unmergeOutfile = DefaultUnmergeOut
       \/ mergeOutfile = DefaultMergeOut /\ unmergeOutfile \in UnmergeOutPaths
    /\ \E ea \in {"png", "jpeg"}, eb \in {"png", "jpeg"} :
          fs = MakeFs(ImageFile(ea, MakeImage(1, 1, 0)),
                      ImageFile(eb, MakeImage(1, 1, 1)),
                      mergeOutfile, unmergeOutfile)

Init ==
    /\ InitImages \/ InitJunk \/ InitHeaders \/ InitPaths
    /\ last = <<>>
    /\ fs0 = fs
    /\ rc = NoRc
    /\ exitCode = 0
    /\ stderr = <<>>
    /\ stdout = FALSE
    /\ trace = <<>>
    /\ origin = NoOrigin

----------------------------------------------------------------------------
(* One run of the program. *)

\* the files a command names as input.  A cover or an image to unmerge is
\* PathA or the output of an earlier merge (always a PNG, so it reads back
\* as written); a secret is PathA or PathB.  The initial files at PathA and
\* PathB range over the same kinds, so the other pairings add nothing.
CoverPaths == {PathA, mergeOutfile}
SecretPaths == {PathA, PathB}

Run(argv) ==
    \E r \in {main(fs, argv)} :
        /\ last' = argv
        /\ fs0' = fs
        /\ fs' = r.fs
        /\ rc' = r.rc
        /\ exitCode' = r.exitCode
        /\ stderr' = r.stderr
        /\ stdout' = r.stdout
        /\ trace' = r.trace
        /\ origin' = IF Len(argv) >= 2 /\ argv[2] = kMergeCmd /\ r.rc = kSuccess
                     THEN [valid |-> TRUE, cover |-> fs[argv[3]].img,
                           secret |-> fs[argv[4]].img]
                     ELSE origin
        /\ UNCHANGED <<mergeOutfile, unmergeOutfile>>

RunMerge ==
    \E cover \in CoverPaths, secret \in SecretPaths :
        Run(<<kProg, kMergeCmd, cover, secret, mergeOutfile>>)

RunUnmerge ==
    \E secret \in CoverPaths :
        Run(<<kProg, kUnmergeCmd, secret, unmergeOutfile>>)

RunHelp ==
    \E argv \in { <<kProg, kHelpCmd>>, <<kProg, kHelpCmd, PathA>> } : Run(argv)

UsageErrors ==
    { <<kProg>>, <<kProg, PathA>>, <<kProg, kMergeCmd, PathA, PathB>>,
      <<kProg, kUnmergeCmd, PathA, unmergeOutfile, PathB>> }

RunUsageError == \E argv \in UsageErrors : Run(argv)

Next == RunMerge \/ RunUnmerge \/ RunHelp \/ RunUsageError

Spec == Init /\ [][Next]_vars

TypeOK ==
    /\ rc \in RetCode \cup {Threw, NoRc}
    /\ exitCode \in {0, EXIT_FAILURE, 134}
    /\ \A p \in DOMAIN fs : fs[p].exists \in BOOLEAN

----------------------------------------------------------------------------
(* What the properties below speak of. *)

\* the high nibble of a channel, in place, and its low nibble
Hi(x) == (x \div 16) * 16
Lo(x) == x % 16

IsMergeRun == Len(last) = kMergeCmdArgCount /\ last[2] = kMergeCmd
IsUnmergeRun == Len(last) = kUnmergeCmdArgCount /\ last[2] = kUnmergeCmd

Inside(image, p) == p[1] < image.h /\ p[2] < image.w

\* C1: unmerging the output of a merge gives an image of the cover's size
\* that holds, inside the secret's bounds, the secret's channels with their
\* low nibble cleared, and black everywhere else.
C1_RoundTrip ==
    (IsUnmergeRun /\ rc = kSuccess /\ last[3] = mergeOutfile /\ origin.valid)
    => LET rec == fs[last[4]].img
       IN  /\ rec.h = origin.cover.h
           /\ rec.w = origin.cover.w
           /\ DOMAIN rec.px = Coords(origin.cover.h, origin.cover.w)
           /\ \A p \in Coords(rec.h, rec.w) : \A i \in 1..3 :
                 rec.px[p][i] = IF Inside(origin.secret, p)
                                THEN Hi(origin.secret.px[p][i])
                                ELSE 0

\* a round trip of a secret smaller than the cover, with a secret channel
\* whose low nibble is lost and a cover channel whose low nibble is not zero
\* outside the secret
C1_Witness ==
    /\ IsUnmergeRun /\ rc = kSuccess /\ last[3] = mergeOutfile /\ origin.valid
    /\ origin.secret.h < origin.cover.h
    /\ \E p \in Coords(origin.secret.h, origin.secret.w) : \E i \in 1..3 :
          /\ Lo(origin.secret.px[p][i]) # 0
          /\ fs[last[4]].img.px[p][i] # origin.secret.px[p][i]
    /\ \E p \in Coords(origin.cover.h, origin.cover.w) : \E i \in 1..3 :
          ~Inside(origin.secret, p) /\ Lo(origin.cover.px[p][i]) # 0

\* C2: a successful merge writes an image of the cover's size whose every
\* channel keeps the cover's high nibble and holds in its low nibble the
\* secret's high nibble inside the secret's bounds and zero outside.
C2_MergeOutput ==
    (IsMergeRun /\ rc = kSuccess)
    => LET cov == fs0[last[3]].img
           sec == fs0[last[4]].img
           out == fs[last[5]].img
       IN  /\ out.h = cov.h
           /\ out.w = cov.w
           /\ DOMAIN out.px = Coords(cov.h, cov.w)
           /\ \A p \in Coords(cov.h, cov.w) : \A i \in 1..3 :
                 /\ out.px[p][i] \in 0..255
                 /\ Hi(out.px[p][i]) = Hi(cov.px[p][i])
                 /\ Lo(out.px[p][i]) = IF Inside(sec, p)
                                       THEN Hi(sec.px[p][i]) \div 16
                                       ELSE 0

\* a successful merge of a secret narrower than the cover, where a cover
\* channel has a low nibble to lose
C2_Witness ==
    /\ IsMergeRun /\ rc = kSuccess
    /\ fs0[last[4]].img.w < fs0[last[3]].img.w
    /\ \E p \in Coords(fs0[last[3]].img.h, fs0[last[3]].img.w) : \E i \in 1..3 :
          /\ Lo(fs0[last[3]].img.px[p][i]) # 0
          /\ Inside(fs0[last[4]].img, p)
          /\ Hi(fs0[last[4]].img.px[p][i]) # 0

\* C3: a successful unmerge writes an image of the input's size whose every
\* channel is the input's low nibble moved to the high nibble, a value in
\* 0..240 with a zero low nibble.
C3_UnmergeOutput ==
    (IsUnmergeRun /\ rc = kSuccess)
    => LET in == fs0[last[3]].img
           out == fs[last[4]].img
       IN  /\ out.h = in.h
           /\ out.w = in.w
           /\ DOMAIN out.px = Coords(in.h, in.w)
           /\ \A p \in Coords(in.h, in.w) : \A i \in 1..3 :
                 /\ out.px[p][i] = Lo(in.px[p][i]) * 16
                 /\ out.px[p][i] \in 0..240
                 /\ Lo(out.px[p][i]) = 0

\* a successful unmerge of an image with a channel whose two nibbles are
\* both set and differ
C3_Witness ==
    /\ IsUnmergeRun /\ rc = kSuccess
    /\ \E p \in Coords(fs0[last[3]].img.h, fs0[last[3]].img.w) : \E i \in 1..3 :
          /\ Lo(fs0[last[3]].img.px[p][i]) # 0
          /\ Hi(fs0[last[3]].img.px[p][i]) # 0
          /\ Hi(fs0[last[3]].img.px[p][i]) # Lo(fs0[last[3]].img.px[p][i]) * 16
          /\ fs[last[4]].img.px[p][i] = Lo(fs0[last[3]].img.px[p][i]) * 16

----------------------------------------------------------------------------
(* The format sniffer, seen through the calls the last run made. *)

\* the GetImageType calls of the last run
Sniffs == { k \in 1..Len(trace) : trace[k].fn = "GetImageType" }

\* the file a call of the last run was about, as it was when the run began
FileOf(k) == fs0[trace[k].path]

\* C4: on a full 8-byte header the sniffer answers PNG exactly for the PNG
\* signature, JPEG exactly for any other header whose first two bytes are
\* FF D8, and Unknown for everything else.
C4_SnifferExact ==
    \A k \in Sniffs :
        (FileOf(k).readable /\ Len(FileOf(k).bytes) = 8)
        => LET b == FileOf(k).bytes
               isPng == b = <<137, 80, 78, 71, 13, 10, 26, 10>>
               isJpeg == ~isPng /\ b[1] = 255 /\ b[2] = 216
           IN  /\ (trace[k].arg = kPng) <=> isPng
               /\ (trace[k].arg = kJpeg) <=> isJpeg
               /\ (trace[k].arg = kUnknown) <=> (~isPng /\ ~isJpeg)

\* C5 as stated: a file that cannot be opened or holds fewer than 8 bytes is
\* Unknown, whatever its bytes.
C5_ShortIsUnknown ==
    \A k \in Sniffs :
        (~FileOf(k).readable \/ Len(FileOf(k).bytes) < 8)
        => trace[k].arg = kUnknown

\* x has every bit of D8 set
HasBitsD8(x) ==
    /\ (x \div 128) % 2 = 1
    /\ (x \div 64) % 2 = 1
    /\ (x \div 16) % 2 = 1
    /\ (x \div 8) % 2 = 1

\* C5 as amended: a file that cannot be opened is Unknown; a file of fewer
\* than 8 bytes is never PNG, is Unknown when it has fewer than two bytes,
\* when its first byte is not FF or when its second byte lacks a bit of D8,
\* and is JPEG when its first two bytes are FF D8.
C5_ShortZeroPadded ==
    \A k \in Sniffs :
        LET f == FileOf(k)
        IN  /\ ~f.readable => trace[k].arg = kUnknown
            /\ (f.readable /\ Len(f.bytes) < 8)
               => /\ trace[k].arg # kPng
                  /\ (Len(f.bytes) < 2 \/ f.bytes[1] # 255 \/ ~HasBitsD8(f.bytes[2]))
                     => trace[k].arg = kUnknown
                  /\ (Len(f.bytes) >= 2 /\ f.bytes[1] = 255 /\ f.bytes[2] = 216)
                     => trace[k].arg = kJpeg

\* the sniffer has classified the two-byte file FF D8 as JPEG
C5_Witness ==
    \E k \in Sniffs :
        /\ FileOf(k).readable
        /\ FileOf(k).bytes = <<255, 216>>
        /\ trace[k].arg = kJpeg

----------------------------------------------------------------------------
(* The order of the checks and the write. *)

Calls(fn) == { k \in 1..Len(trace) : trace[k].fn = fn }

\* the stage of a call: existence, classification, decoding, writing
Stage(k) ==
    IF trace[k].fn = "exists" THEN 1
    ELSE IF trace[k].fn = "GetImageType" THEN 2
    ELSE IF trace[k].fn = "ReadImage" THEN 3
    ELSE 4

SniffedUnknown == \E k \in Sniffs : trace[k].arg = kUnknown

\* C6: Merge answers FileNotFound when the cover or the secret is missing,
\* before any classification or decoding; otherwise InvalidFileFormat when
\* either file classifies as Unknown, before any decoding; otherwise, when
\* it returns, InvalidDimensions exactly when the secret is higher or wider
\* than the cover, and Success if not.  Unmerge answers FileNotFound, then
\* InvalidFileFormat, in the same way, and never InvalidDimensions.
C6_CheckOrder ==
    /\ \A j \in 1..Len(trace) : \A k \in 1..Len(trace) :
          j < k => Stage(j) <= Stage(k)
    /\ IsMergeRun =>
          LET cover == fs0[last[3]]
              secret == fs0[last[4]]
          IN  IF ~cover.exists \/ ~secret.exists
              THEN /\ rc = kFileNotFound
                   /\ Calls("GetImageType") = {}
                   /\ Calls("ReadImage") = {}
              ELSE /\ \A path \in {last[3], last[4]} :
                         \E k \in Sniffs : trace[k].path = path
                   /\ IF SniffedUnknown
                      THEN rc = kInvalidFileFormat /\ Calls("ReadImage") = {}
                      ELSE \/ rc = Threw
                           \/ /\ rc = kInvalidDimensions
                              /\ \/ secret.img.h > cover.img.h
                                 \/ secret.img.w > cover.img.w
                           \/ /\ rc = kSuccess
                              /\ secret.img.h <= cover.img.h
                              /\ secret.img.w <= cover.img.w
    /\ IsUnmergeRun =>
          IF ~fs0[last[3]].exists
          THEN /\ rc = kFileNotFound
               /\ Calls("GetImageType") = {}
               /\ Calls("ReadImage") = {}
          ELSE /\ Sniffs # {}
               /\ IF SniffedUnknown
                  THEN rc = kInvalidFileFormat /\ Calls("ReadImage") = {}
                  ELSE rc \in {kSuccess, Threw}

\* a merge of a secret of exactly the cover's size has succeeded
C6_Witness ==
    /\ IsMergeRun /\ rc = kSuccess
    /\ last[3] # last[4]
    /\ fs0[last[4]].img.h = fs0[last[3]].img.h
    /\ fs0[last[4]].img.w = fs0[last[3]].img.w

\* a merge has answered FileNotFound for a missing cover although the
\* secret is a file of unknown format
C6_WitnessMissing ==
    /\ IsMergeRun /\ rc = kFileNotFound
    /\ ~fs0[last[3]].exists
    /\ fs0[last[4]].exists /\ fs0[last[4]].enc = "none"

\* C7: a command that returns a code other than Success has written
\* nothing: the file system is as it was; a write is the last call of a
\* run, there is at most one, and it is made only by a run that returns
\* Success, to its outfile.
C7_NoWriteOnFailure ==
    /\ rc \in {kFileNotFound, kInvalidFileFormat, kInvalidDimensions}
       => fs = fs0 /\ Calls("WriteImage") = {}
    /\ \A k \in Calls("WriteImage") :
          /\ k = Len(trace)
          /\ rc = kSuccess
          /\ IsMergeRun => trace[k].path = last[5]
          /\ IsUnmergeRun => trace[k].path = last[4]
    /\ ((IsMergeRun \/ IsUnmergeRun) /\ rc = kSuccess)
       => Calls("WriteImage") = {Len(trace)}
    /\ fs # fs0 => rc = kSuccess

\* a merge has answered InvalidDimensions while a file written by an
\* earlier merge is at its outfile, and the file is as it was
C7_Witness ==
    /\ IsMergeRun /\ rc = kInvalidDimensions
    /\ fs0[last[5]].exists
    /\ fs[last[5]] = fs0[last[5]]

\* C8: a successful merge writes a PNG, whatever the outfile's name and the
\* formats of the inputs; no merge writes a JPEG.
C8_MergeWritesPng ==
    IsMergeRun =>
        /\ \A k \in Calls("WriteImage") : trace[k].arg = kPng
        /\ rc = kSuccess =>
              /\ fs[last[5]].exists
              /\ fs[last[5]].enc = "png"
              /\ fs[last[5]].bytes = <<137, 80, 78, 71, 13, 10, 26, 10>>

\* a merge of two JPEG inputs into m.jpg has succeeded
C8_Witness ==
    /\ IsMergeRun /\ rc = kSuccess
    /\ last[5] = <<"m", ".", "j", "p", "g">>
    /\ fs0[last[3]].enc = "jpeg" /\ fs0[last[4]].enc = "jpeg"
    /\ fs[last[5]].enc = "png"

\* the names of UnmergeOutPaths that end in .jpg, .jpeg, .JPG or .JPEG
JpegNames ==
    { <<"u", ".", "j", "p", "g">>, <<"u", ".", "j", "p", "e", "g">>,
      <<"u", ".", "J", "P", "G">>, <<"u", ".", "J", "P", "E", "G">> }

\* C9: a successful unmerge writes a JPEG exactly when its outfile ends in
\* .jpg, .jpeg, .JPG or .JPEG and a PNG for every other name, whatever the
\* format of its input.
C9_UnmergeFormat ==
    (IsUnmergeRun /\ rc = kSuccess)
    => /\ last[4] \in UnmergeOutPaths
       /\ fs[last[4]].exists
       /\ fs[last[4]].enc = IF last[4] \in JpegNames THEN "jpeg" ELSE "png"
       /\ trace[Len(trace)].arg = IF last[4] \in JpegNames THEN kJpeg ELSE kPng

\* an unmerge of a JPEG input into u.jpg.png has written a PNG
C9_Witness ==
    /\ IsUnmergeRun /\ rc = kSuccess
    /\ last[4] = <<"u", ".", "j", "p", "g", ".", "p", "n", "g">>
    /\ fs0[last[3]].enc = "jpeg"
    /\ fs[last[4]].enc = "png"

\* C10: the front end reports the code of a merge or unmerge command one to
\* one: Success gives no message and status 0; each other code gives its
\* own message and a nonzero status; the status is 0 only after Success or
\* help.
C10_ExitMapping ==
    /\ (IsMergeRun \/ IsUnmergeRun) =>
          /\ rc = kSuccess => stderr = <<>> /\ exitCode = 0
          /\ rc = kInvalidFileFormat =>
                /\ stderr[1] = <<"error: ",
                                 "invalid format, only JPEG and PNG are accepted">>
                /\ exitCode # 0
          /\ rc = kFileNotFound =>
                /\ stderr[1] = <<"error: ", "one or more input files do not exist">>
                /\ exitCode # 0
          /\ rc = kInvalidDimensions =>
                /\ stderr[1] = <<"error: ",
                                 "secret image does not fit inside cover image">>
                /\ exitCode # 0
    /\ (last # <<>> /\ exitCode = 0) =>
          \/ (IsMergeRun \/ IsUnmergeRun) /\ rc = kSuccess
          \/ Len(last) >= 2 /\ last[2] = kHelpCmd

\* a merge has answered InvalidDimensions and the process has left with the
\* message for it and status 1
C10_Witness ==
    /\ IsMergeRun /\ rc = kInvalidDimensions
    /\ exitCode = EXIT_FAILURE
    /\ stderr[1] = <<"error: ", "secret image does not fit inside cover image">>

----------------------------------------------------------------------------
(* Chains of merges.  A cover is PathA or the file at mergeOutfile, and     *)
(* nothing writes PathA, so the file at mergeOutfile is the end of a chain  *)
(* of merges whose original cover is the image at PathA and whose last      *)
(* secret is origin.secret.                                                 *)

\* the channel a single merge of cover and secret gives at p
OneMerge(cover, secret, p, i) ==
    Hi(cover.px[p][i])
        + (IF Inside(secret, p) THEN Hi(secret.px[p][i]) \div 16 ELSE 0)

\* the last run was a merge whose cover was the output of an earlier merge
IsChainedMerge == IsMergeRun /\ rc = kSuccess /\ last[3] = mergeOutfile

\* C11: after any chain of successful merges, each taking the output of the
\* one before as its cover, the output has the original cover's size, keeps
\* the original cover's high nibbles and holds only the last secret's high
\* nibbles (zero outside the last secret): it is what one merge of the
\* original cover and the last secret gives, so merging the same secret
\* again changes nothing, and an unmerge of it recovers the last secret's
\* high nibbles and black elsewhere.
C11_ChainKeepsLastSecret ==
    /\ fs[mergeOutfile].exists =>
          LET first == fs[PathA].img
              out == fs[mergeOutfile].img
          IN  /\ origin.valid
              /\ out.h = first.h
              /\ out.w = first.w
              /\ \A p \in Coords(first.h, first.w) : \A i \in 1..3 :
                    out.px[p][i] = OneMerge(first, origin.secret, p, i)
    /\ (IsChainedMerge
        /\ \A p \in Coords(fs0[PathA].img.h, fs0[PathA].img.w) : \A i \in 1..3 :
              Lo(fs0[mergeOutfile].img.px[p][i])
                  = Lo(OneMerge(fs0[PathA].img, fs0[last[4]].img, p, i)))
       => fs[mergeOutfile] = fs0[mergeOutfile]
    /\ (IsUnmergeRun /\ rc = kSuccess /\ last[3] = mergeOutfile) =>
          \A p \in Coords(fs[PathA].img.h, fs[PathA].img.w) : \A i \in 1..3 :
              /\ fs[last[4]].img.px[p][i] \in 0..240
              /\ fs[last[4]].img.px[p][i] \div 16
                    = Lo(OneMerge(fs[PathA].img, origin.secret, p, i))

\* a merge onto the output of an earlier merge has replaced the hidden
\* image: outside the smaller last secret a low nibble the earlier secret
\* had set is zero again, and the original cover has a low nibble that no
\* longer shows
C11_Witness ==
    /\ IsChainedMerge
    /\ fs[mergeOutfile].img # fs0[mergeOutfile].img
    /\ \E p \in Coords(fs[PathA].img.h, fs[PathA].img.w) : \E i \in 1..3 :
          /\ ~Inside(origin.secret, p)
          /\ Lo(fs0[mergeOutfile].img.px[p][i]) # 0
          /\ Lo(fs[mergeOutfile].img.px[p][i]) = 0
          /\ Lo(fs[PathA].img.px[p][i]) # 0

\* the same secret has been merged a second time and the output is the same
C11_WitnessTwice ==
    /\ IsChainedMerge
    /\ fs0[mergeOutfile].exists
    /\ fs[mergeOutfile] = fs0[mergeOutfile]
    /\ last[4] = PathB

====
